---- MODULE Spec2Model ----
(***************************************************************************)
(* A model of src/graph.rs: the adjacency store Graph (node_tables, a map  *)
(* from vertex to a map from vertex to Option<E>), the lazy traversal      *)
(* Traverse (back_ptr, search_queue, method) and find_path.                *)
(*                                                                         *)
(* Option<T> is modelled as a sequence of length at most one: None is      *)
(* <<>> and Some(x) is <<x>>.  A HashMap is a function whose DOMAIN is its *)
(* key set.  HashMap::keys() iterates in an arbitrary order, which the     *)
(* model draws from all the permutations of the key set.                   *)
(***************************************************************************)
EXTENDS Integers, Sequences, FiniteSets, TLC

\* Bounds of the model.
MaxVertex == 2          \* vertex identifiers are 0..MaxVertex
MaxEdges == 3           \* distinct (u,v) argument pairs given to add_edge (E = ())
MaxStoreEdges == 2      \* the same, for the store with labelled payloads
MaxList == 2            \* items consumed by one add_edge_list call

Vertices == 0..MaxVertex
\* The edge payload type E: the unit type of the tests, and a type of two
\* labels that tells a stored payload from a discarded one.
UnitPayloads == {"unit"}
Payloads == {"A", "B"}
Methods == {"BFS", "DFS"}

None == << >>
Some(x) == << x >>

VARIABLES
    directed,       \* Graph.directed
    node_tables,    \* Graph.node_tables
    trav,           \* the Traverse object held by the caller (bfs / dfs)
    iter,           \* the local Traverse of a running find_path
    pc,             \* "idle", or the loop the program is inside
    list_len,       \* items consumed so far by the running add_edge_list
    ret,            \* the last call: its name, arguments and outcome
    inserted        \* history: the (u,v) pairs of the add_edge calls that returned

vars == << directed, node_tables, trav, iter, pc, list_len, ret, inserted >>

----------------------------------------------------------------------------
\* HashMap helpers

EmptyMap == [k \in {} |-> None]

\* m with key k bound to val, whatever it held before
MapSet(m, k, val) == [x \in (DOMAIN m) \cup {k} |-> IF x = k THEN val ELSE m[x]]

\* HashMap::entry(k).or_insert(val): the map afterwards
OrInsert(m, k, val) == IF k \in DOMAIN m THEN m ELSE MapSet(m, k, val)

\* every order in which keys() may hand out the key set S
KeyOrders(S) ==
    {p \in [1..Cardinality(S) -> S] : \A i, j \in 1..Cardinality(S) : i /= j => p[i] /= p[j]}

----------------------------------------------------------------------------
\* Graph store

\* add_vertex with insert in place of entry().or_insert
AddVertexInsert(nt, v) == MapSet(nt, v, EmptyMap)

\* add_vertex: the node table afterwards
AddVertex(nt, v) == OrInsert(nt, v, EmptyMap)

\* the endpoints ordered whatever the directedness
CanonAlways(d, u, v) == IF u > v THEN << v, u >> ELSE << u, v >>

\* the (u,v) that add_edge and find_edge work on
Canon(d, u, v) == IF ~d /\ u > v THEN << v, u >> ELSE << u, v >>

\* add_edge as an upsert: the canonical slot is overwritten
AddEdgeTablesUpsert(nt, d, u, v, e) ==
    LET cu  == IF ~d /\ u > v THEN v ELSE u
        cv  == IF ~d /\ u > v THEN u ELSE v
        nt1 == IF ~d
               THEN LET a == OrInsert(nt, cv, EmptyMap)
                    IN  MapSet(a, cv, OrInsert(a[cv], cu, None))
               ELSE nt
        a2  == OrInsert(nt1, cu, EmptyMap)
    IN  MapSet(a2, cu, MapSet(a2[cu], cv, Some(e)))

\* add_edge that stores the payload in the mirror slot as well
AddEdgeTablesMirrorPayload(nt, d, u, v, e) ==
    LET cu  == IF ~d /\ u > v THEN v ELSE u
        cv  == IF ~d /\ u > v THEN u ELSE v
        nt1 == IF ~d
               THEN LET a == OrInsert(nt, cv, EmptyMap)
                    IN  MapSet(a, cv, OrInsert(a[cv], cu, Some(e)))
               ELSE nt
        a2  == OrInsert(nt1, cu, EmptyMap)
    IN  MapSet(a2, cu, OrInsert(a2[cu], cv, Some(e)))

\* add_edge that writes the mirror entry whatever the directedness
AddEdgeTablesMirrorAlways(nt, d, u, v, e) ==
    LET cu  == IF ~d /\ u > v THEN v ELSE u
        cv  == IF ~d /\ u > v THEN u ELSE v
        a   == OrInsert(nt, cv, EmptyMap)
        nt1 == MapSet(a, cv, OrInsert(a[cv], cu, None))
        a2  == OrInsert(nt1, cu, EmptyMap)
    IN  MapSet(a2, cu, OrInsert(a2[cu], cv, Some(e)))

\* add_edge once the self-loop check has passed: the node table afterwards
AddEdgeTables(nt, d, u, v, e) ==
    LET c   == Canon(d, u, v)
        cu  == c[1]
        cv  == c[2]
        nt1 == IF ~d
               THEN LET a == AddVertex(nt, cv)
                    IN  MapSet(a, cv, OrInsert(a[cv], cu, None))
               ELSE nt
        a2  == AddVertex(nt1, cu)
    IN  MapSet(a2, cu, OrInsert(a2[cu], cv, Some(e)))

\* add_edge that registers u before it looks for a self-loop
AddEdgeCheckLate(nt, d, u, v, e) ==
    IF u = v
    THEN [outcome |-> "panic", nt |-> OrInsert(nt, u, EmptyMap), val |-> None]
    ELSE LET c   == Canon(d, u, v)
             nt2 == AddEdgeTables(nt, d, u, v, e)
         IN  [outcome |-> "ok", nt |-> nt2, val |-> nt2[c[1]][c[2]]]

\* add_edge: outcome, node table afterwards and the slot the returned
\* reference points at (unwrap panics on a None slot)
AddEdge(nt, d, u, v, e) ==
    IF u = v
    THEN [outcome |-> "panic", nt |-> nt, val |-> None]
    ELSE LET c   == Canon(d, u, v)
             nt2 == AddEdgeTables(nt, d, u, v, e)
             slot == nt2[c[1]][c[2]]
         IN  IF slot = None
             THEN [outcome |-> "panic", nt |-> nt2, val |-> None]
             ELSE [outcome |-> "ok", nt |-> nt2, val |-> slot]

\* find_edge that looks (u,v) up as given
FindEdgeAsGiven(nt, d, u, v) ==
    IF u \notin DOMAIN nt THEN None
    ELSE IF v \notin DOMAIN nt[u] THEN None
    ELSE nt[u][v]

\* find_edge: Option<&E>
FindEdge(nt, d, u, v) ==
    LET c == Canon(d, u, v)
    IN  IF c[1] \notin DOMAIN nt THEN None
        ELSE IF c[2] \notin DOMAIN nt[c[1]] THEN None
        ELSE nt[c[1]][c[2]]

----------------------------------------------------------------------------
\* Traversal

\* no Traverse object (dropped or never created)
NoTrav ==
    [alive |-> FALSE, method |-> "BFS", start |-> 0, back_ptr |-> EmptyMap,
     search_queue |-> << >>, yielded |-> << >>, pushed |-> << >>]

\* create_trav without the look-up of the start vertex
CreateTravUnchecked(nt, v, method) ==
    [outcome |-> "ok",
     trav |-> [alive |-> TRUE, method |-> method, start |-> v,
               back_ptr |-> OrInsert(EmptyMap, v, v),
               search_queue |-> << v >>,
               yielded |-> << >>, pushed |-> << v >>]]

\* create_trav that leaves back_ptr empty
CreateTravNoBackPtr(nt, v, method) ==
    IF v \notin DOMAIN nt
    THEN [outcome |-> "panic", trav |-> NoTrav]
    ELSE [outcome |-> "ok",
          trav |-> [alive |-> TRUE, method |-> method, start |-> v,
                    back_ptr |-> EmptyMap,
                    search_queue |-> << v >>,
                    yielded |-> << >>, pushed |-> << v >>]]

\* create_trav; yielded and pushed are history: what next() has returned and
\* what has been placed on search_queue
CreateTrav(nt, v, method) ==
    IF v \notin DOMAIN nt
    THEN [outcome |-> "panic", trav |-> NoTrav]
    ELSE [outcome |-> "ok",
          trav |-> [alive |-> TRUE, method |-> method, start |-> v,
                    back_ptr |-> OrInsert(EmptyMap, v, v),
                    search_queue |-> << v >>,
                    yielded |-> << >>, pushed |-> << v >>]]

\* a loop body that pushes every key
UnvisitedAlways(back_ptr, v, u) == TRUE

\* a loop body that tests the key u, the neighbour, for a back pointer
UnvisitedKey(back_ptr, v, u) == u \notin DOMAIN back_ptr

\* the test of the loop body of next(): v is the popped vertex, u the key
Unvisited(back_ptr, v, u) == v \notin DOMAIN back_ptr

\* the for loop of next() over the keys of v's table, in the order given
RECURSIVE ScanKeys(_, _, _)
ScanKeys(order, v, t) ==
    IF order = << >> THEN t
    ELSE LET u  == Head(order)
             t1 == IF Unvisited(t.back_ptr, v, u)
                   THEN [t EXCEPT !.search_queue = Append(@, u),
                                  !.back_ptr = OrInsert(@, u, v),
                                  !.pushed = Append(@, u)]
                   ELSE t
         IN  ScanKeys(Tail(order), v, t1)

\* the vertex next() pops: front for BFS, back for DFS
Popped(t) ==
    IF t.method = "BFS" THEN Head(t.search_queue)
    ELSE t.search_queue[Len(t.search_queue)]

AfterPop(t) ==
    IF t.method = "BFS" THEN Tail(t.search_queue)
    ELSE SubSeq(t.search_queue, 1, Len(t.search_queue) - 1)

\* the key orders next() may meet in state t
NextOrders(t, nt) ==
    IF t.search_queue /= << >> /\ Popped(t) \in DOMAIN nt
    THEN KeyOrders(DOMAIN nt[Popped(t)])
    ELSE { << >> }

\* next() that starts over from the start vertex once the queue has run empty
TravNextRestart(t, nt, order) ==
    LET t1 == IF t.search_queue = << >> /\ t.yielded /= << >>
              THEN [t EXCEPT !.search_queue = << t.start >>]
              ELSE t
    IN  IF t1.search_queue = << >>
        THEN [outcome |-> "ok", trav |-> t1, item |-> None]
        ELSE LET v  == Popped(t1)
                 t0 == [t1 EXCEPT !.search_queue = AfterPop(t1)]
             IN  IF v \notin DOMAIN nt
                 THEN [outcome |-> "panic", trav |-> t0, item |-> None]
                 ELSE [outcome |-> "ok",
                       trav |-> [ScanKeys(order, v, t0) EXCEPT !.yielded = Append(@, v)],
                       item |-> Some(v)]

\* Traverse::next
TravNext(t, nt, order) ==
    IF t.search_queue = << >>
    THEN [outcome |-> "ok", trav |-> t, item |-> None]
    ELSE LET v  == Popped(t)
             t0 == [t EXCEPT !.search_queue = AfterPop(t)]
         IN  IF v \notin DOMAIN nt
             THEN [outcome |-> "panic", trav |-> t0, item |-> None]
             ELSE [outcome |-> "ok",
                   trav |-> [ScanKeys(order, v, t0) EXCEPT !.yielded = Append(@, v)],
                   item |-> Some(v)]

\* next() that looks the popped vertex's neighbours up with
\* entry().or_insert, which registers the ones that have no table
GraphAfterNextEntry(nt, t) ==
    IF t.search_queue /= << >> /\ Popped(t) \in DOMAIN nt
    THEN [x \in (DOMAIN nt) \cup (DOMAIN nt[Popped(t)]) |->
            IF x \in DOMAIN nt THEN nt[x] ELSE EmptyMap]
    ELSE nt

\* the node table after next() on traversal t: next() holds the graph by a
\* shared reference and only reads it (get, keys)
GraphAfterNext(nt, t) == nt

\* a walk that collects the node before it tests for the fixed point
RECURSIVE WalkPushFirst(_, _, _, _)
WalkPushFirst(back_ptr, node, acc, fuel) ==
    IF node \notin DOMAIN back_ptr THEN [outcome |-> "panic", path |-> acc]
    ELSE IF back_ptr[node] = node THEN [outcome |-> "ok", path |-> Append(acc, node)]
    ELSE IF fuel = 0 THEN [outcome |-> "diverge", path |-> acc]
    ELSE WalkPushFirst(back_ptr, back_ptr[node], Append(acc, node), fuel - 1)

\* the back-pointer walk of find_path from node; it indexes back_ptr (panic
\* on a missing key) and runs forever when the chain never reaches a fixed
\* point, which is the case once it has taken more steps than there are keys
RECURSIVE Walk(_, _, _, _)
Walk(back_ptr, node, acc, fuel) ==
    IF node \notin DOMAIN back_ptr THEN [outcome |-> "panic", path |-> acc]
    ELSE IF back_ptr[node] = node THEN [outcome |-> "ok", path |-> acc]
    ELSE IF fuel = 0 THEN [outcome |-> "diverge", path |-> acc]
    ELSE Walk(back_ptr, back_ptr[node], Append(acc, node), fuel - 1)

----------------------------------------------------------------------------
Call(op, args, outcome, val) ==
    [op |-> op, args |-> args, outcome |-> outcome, val |-> val]

Init ==
    /\ directed \in BOOLEAN
    /\ node_tables = EmptyMap
    /\ trav = NoTrav
    /\ iter = NoTrav
    /\ pc = "idle"
    /\ list_len = 0
    /\ ret = Call("new", << >>, "ok", None)
    /\ inserted = {}

\* Between calls, with no Traverse alive.  The store is mutated through an
\* exclusive reference, never while a Traverse borrows it; and the model
\* follows one client object at a time, so a query is made, and a Traverse
\* created, only when no other Traverse is alive.
CanMutate == pc = "idle" /\ ~trav.alive

AddVertexCall(v) ==
    /\ CanMutate
    /\ node_tables' = AddVertex(node_tables, v)
    /\ ret' = Call("add_vertex", << v >>, "ok", None)
    /\ UNCHANGED << directed, trav, iter, pc, list_len, inserted >>

AddEdgeCall(u, v, e) ==
    /\ CanMutate
    /\ LET r == AddEdge(node_tables, directed, u, v, e)
       IN  /\ node_tables' = r.nt
           /\ ret' = Call("add_edge", << u, v, e >>, r.outcome, r.val)
           /\ inserted' = IF r.outcome = "ok" THEN inserted \cup {<< u, v >>} ELSE inserted
    /\ UNCHANGED << directed, trav, iter, pc, list_len >>

AddEdgeListCall ==
    /\ CanMutate
    /\ pc' = "add_edge_list"
    /\ list_len' = 0
    /\ ret' = Call("add_edge_list", << >>, "running", None)
    /\ UNCHANGED << directed, node_tables, trav, iter, inserted >>

\* one turn of the for loop: the next item of the list is ((u,v),e)
AddEdgeListItem(u, v, e) ==
    /\ pc = "add_edge_list"
    /\ list_len < MaxList
    /\ LET r == AddEdge(node_tables, directed, u, v, e)
       IN  /\ node_tables' = r.nt
           /\ inserted' = IF r.outcome = "ok" THEN inserted \cup {<< u, v >>} ELSE inserted
           /\ IF r.outcome = "ok"
              THEN /\ ret' = Call("add_edge_list", << u, v, e >>, "running", None)
                   /\ list_len' = list_len + 1
                   /\ pc' = pc
              ELSE /\ ret' = Call("add_edge_list", << u, v, e >>, "panic", None)
                   /\ list_len' = 0
                   /\ pc' = "idle"
    /\ UNCHANGED << directed, trav, iter >>

\* the list is exhausted
AddEdgeListEnd ==
    /\ pc = "add_edge_list"
    /\ pc' = "idle"
    /\ list_len' = 0
    /\ ret' = Call("add_edge_list", ret.args, "ok", None)
    /\ UNCHANGED << directed, node_tables, trav, iter, inserted >>

FindEdgeCall(u, v) ==
    /\ CanMutate
    /\ ret' = Call("find_edge", << u, v >>, "ok", FindEdge(node_tables, directed, u, v))
    /\ UNCHANGED << directed, node_tables, trav, iter, pc, list_len, inserted >>

\* bfs(v) and dfs(v)
TraverseCall(v, method) ==
    /\ CanMutate
    /\ LET c == CreateTrav(node_tables, v, method)
       IN  /\ trav' = IF c.outcome = "ok" THEN c.trav ELSE trav
           /\ ret' = Call(IF method = "BFS" THEN "bfs" ELSE "dfs", << v >>, c.outcome, None)
    /\ UNCHANGED << directed, node_tables, iter, pc, list_len, inserted >>

\* the caller pulls the next vertex
NextCall ==
    /\ pc = "idle"
    /\ trav.alive
    /\ \E order \in NextOrders(trav, node_tables) :
         LET r == TravNext(trav, node_tables, order)
         IN  /\ trav' = r.trav
             /\ ret' = Call("next", << >>, r.outcome, r.item)
    /\ node_tables' = GraphAfterNext(node_tables, trav)
    /\ UNCHANGED << directed, iter, pc, list_len, inserted >>

\* the caller abandons its traversal
DropTraverse ==
    /\ pc = "idle"
    /\ trav.alive
    /\ trav' = NoTrav
    /\ ret' = Call("drop", << >>, "ok", None)
    /\ UNCHANGED << directed, node_tables, iter, pc, list_len, inserted >>

\* find_path(s, t) up to its loop
FindPathCall(s, t) ==
    /\ CanMutate
    /\ LET c == CreateTrav(node_tables, s, "DFS")
       IN  IF c.outcome = "ok"
           THEN /\ iter' = c.trav
                /\ pc' = "find_path"
                /\ ret' = Call("find_path", << s, t >>, "running", None)
           ELSE /\ iter' = iter
                /\ pc' = pc
                /\ ret' = Call("find_path", << s, t >>, "panic", None)
    /\ UNCHANGED << directed, node_tables, trav, list_len, inserted >>

\* one turn of the loop of find_path and, when it breaks, the walk
FindPathLoop ==
    /\ pc = "find_path"
    /\ \E order \in NextOrders(iter, node_tables) :
         LET r == TravNext(iter, node_tables, order)
             t == ret.args[2]
         IN  IF r.outcome = "panic"
             THEN /\ iter' = NoTrav
                  /\ pc' = "idle"
                  /\ ret' = Call("find_path", ret.args, "panic", None)
             ELSE IF r.item = None
             THEN /\ iter' = NoTrav
                  /\ pc' = "idle"
                  /\ ret' = Call("find_path", ret.args, "ok", None)
             ELSE IF r.item = Some(t)
             THEN LET w == Walk(r.trav.back_ptr, t, << >>, Cardinality(DOMAIN r.trav.back_ptr))
                  IN  /\ iter' = NoTrav
                      /\ pc' = "idle"
                      /\ ret' = Call("find_path", ret.args, w.outcome,
                                     IF w.outcome = "ok" THEN Some(w.path) ELSE None)
             ELSE /\ iter' = r.trav
                  /\ pc' = pc
                  /\ ret' = ret
    /\ node_tables' = GraphAfterNext(node_tables, iter)
    /\ UNCHANGED << directed, trav, list_len, inserted >>

\* the bound on the add_edge arguments the model draws
WithinEdges(u, v, max) == << u, v >> \in inserted \/ Cardinality(inserted) < max

\* The whole library over Graph<V, (), S>, as the tests instantiate it.
Next ==
    \/ \E v \in Vertices : AddVertexCall(v)
    \/ \E u, v \in Vertices, e \in UnitPayloads :
         WithinEdges(u, v, MaxEdges) /\ AddEdgeCall(u, v, e)
    \/ AddEdgeListCall
    \/ \E u, v \in Vertices, e \in UnitPayloads :
         WithinEdges(u, v, MaxEdges) /\ AddEdgeListItem(u, v, e)
    \/ AddEdgeListEnd
    \/ \E u, v \in Vertices : FindEdgeCall(u, v)
    \/ \E v \in Vertices, m \in Methods : TraverseCall(v, m)
    \/ NextCall
    \/ DropTraverse
    \/ \E s, t \in Vertices : FindPathCall(s, t)
    \/ FindPathLoop

Spec == Init /\ [][Next]_vars

\* The mutations of the graph store, over payloads that can be told apart.
\* find_edge reads the store and nothing else: the properties checked
\* under this specification evaluate FindEdge in every state it reaches.
NextStore ==
    \/ \E v \in Vertices : AddVertexCall(v)
    \/ \E u, v \in Vertices, e \in Payloads :
         WithinEdges(u, v, MaxStoreEdges) /\ AddEdgeCall(u, v, e)
    \/ AddEdgeListCall
    \/ \E u, v \in Vertices, e \in Payloads :
         WithinEdges(u, v, MaxStoreEdges) /\ AddEdgeListItem(u, v, e)
    \/ AddEdgeListEnd

SpecStore == Init /\ [][NextStore]_vars

\* The graph of the tests: the edge list, and the vertices it names with one
\* more that it does not.
TestEdgeList == << << 0, 1 >>, << 1, 2 >>, << 2, 3 >>, << 3, 1 >> >>
TestVertices == 0..4

\* add_edge_list as a whole, on a list of pairs with the unit payload: the
\* node table afterwards
RECURSIVE AddEdgeListAll(_, _, _)
AddEdgeListAll(nt, d, list) ==
    IF list = << >> THEN nt
    ELSE AddEdgeListAll(AddEdge(nt, d, list[1][1], list[1][2], "unit").nt, d, Tail(list))

\* the state of test_undirected and test_directed after their add_edge_list
InitTest ==
    /\ directed \in BOOLEAN
    /\ node_tables = AddEdgeListAll(EmptyMap, directed, TestEdgeList)
    /\ trav = NoTrav
    /\ iter = NoTrav
    /\ pc = "idle"
    /\ list_len = 0
    /\ ret = Call("add_edge_list", << 3, 1, "unit" >>, "ok", None)
    /\ inserted = {TestEdgeList[i] : i \in 1..Len(TestEdgeList)}

\* the queries made on the graph of the tests
NextTest ==
    \/ \E u, v \in TestVertices : FindEdgeCall(u, v)
    \/ \E v \in TestVertices, m \in Methods : TraverseCall(v, m)
    \/ NextCall
    \/ DropTraverse
    \/ \E s, t \in TestVertices : FindPathCall(s, t)
    \/ FindPathLoop

SpecTest == InitTest /\ [][NextTest]_vars

----------------------------------------------------------------------------
\* Notions the properties are stated in

Range(q) == {q[i] : i \in 1..Len(q)}
NoDuplicates(q) == \A i, j \in 1..Len(q) : i /= j => q[i] /= q[j]

\* the edges the add_edge calls asked for: as given in a directed graph, in
\* both directions in an undirected one
EdgesAsked ==
    IF directed THEN inserted
    ELSE inserted \cup {<< p[2], p[1] >> : p \in inserted}

RECURSIVE ReachFrom(_)
ReachFrom(S) ==
    LET N == S \cup {p[2] : p \in {q \in EdgesAsked : q[1] \in S}}
    IN  IF N = S THEN S ELSE ReachFrom(N)

Reachable(s) == ReachFrom({s})

Registered(v) == v \in DOMAIN node_tables

\* find_edge on the current store
Found(u, v) == FindEdge(node_tables, directed, u, v)

\* the caller's traversal has just reported the end of the sequence
Exhausted == trav.alive /\ ret.op = "next" /\ ret.outcome = "ok" /\ ret.val = None

\* find_path has returned (normally or not)
PathReturned == ret.op = "find_path" /\ pc = "idle"
PathFound == PathReturned /\ ret.outcome = "ok" /\ ret.val /= None
PathS == ret.args[1]
PathT == ret.args[2]
PathSeq == ret.val[1]

----------------------------------------------------------------------------
\* C1: a BFS or DFS traversal run to exhaustion has yielded exactly the
\* vertices reachable from its start vertex.
C1_YieldsReachableSet ==
    Exhausted => Range(trav.yielded) = Reachable(trav.start)

\* C2: in any traversal no vertex is yielded more than once and no vertex is
\* placed on the frontier more than once.
C2_AtMostOnce ==
    /\ NoDuplicates(trav.yielded) /\ NoDuplicates(trav.pushed)
    /\ NoDuplicates(iter.yielded) /\ NoDuplicates(iter.pushed)

\* a traversal run to exhaustion from a start vertex that has neighbours,
\* one of which has the start vertex as its own neighbour
C2_Witness ==
    /\ Exhausted
    /\ \E u \in DOMAIN node_tables[trav.start] :
         Registered(u) /\ trav.start \in DOMAIN node_tables[u]

\* C3: find_path(s, t) on a registered s returns "no path" if and only if t
\* is not reachable from s, and a sequence otherwise.
C3_NoPathIffUnreachable ==
    (PathReturned /\ Registered(PathS)) =>
        /\ ret.outcome = "ok"
        /\ (ret.val = None) <=> (PathT \notin Reachable(PathS))

\* consecutive vertices of a target-to-source path q ending next to s are
\* joined by edges
Chained(q, s) ==
    /\ \A i \in 1..(Len(q) - 1) : Found(q[i + 1], q[i]) /= None
    /\ q /= << >> => Found(s, q[Len(q)]) /= None

\* C4 (as stated): a sequence returned by find_path(s, t) starts with t, does
\* not contain s and is chained by edges down to s.
C4_PathShape ==
    PathFound =>
        /\ PathSeq /= << >> /\ PathSeq[1] = PathT
        /\ PathS \notin Range(PathSeq)
        /\ Chained(PathSeq, PathS)

\* C4 (amended): a sequence returned by find_path(s, t) does not contain s
\* and is chained by edges down to s; it is empty when s = t and starts with
\* t when s /= t.
C4_PathShapeAmended ==
    PathFound =>
        /\ PathS \notin Range(PathSeq)
        /\ Chained(PathSeq, PathS)
        /\ PathS = PathT => PathSeq = << >>
        /\ PathS /= PathT => (PathSeq /= << >> /\ PathSeq[1] = PathT)

\* find_path has returned a sequence on a graph where s has a neighbour
C4_Witness ==
    PathFound /\ DOMAIN node_tables[PathS] /= {}

\* C5: in an undirected graph every inserted pair is found with the same
\* payload in both argument orders.
C5_UndirectedSymmetric ==
    ~directed =>
        \A p \in inserted :
            /\ Found(p[1], p[2]) /= None
            /\ Found(p[1], p[2]) = Found(p[2], p[1])

\* an undirected graph holding an edge that was inserted larger endpoint first
C5_Witness ==
    /\ ~directed
    /\ \E p \in inserted : p[1] > p[2] /\ << p[2], p[1] >> \notin inserted

\* C6: in a directed graph find_edge((a,b)) finds a payload exactly when
\* add_edge((a,b), _) was called in that orientation.
C6_DirectedStrict ==
    directed =>
        \A a, b \in Vertices : (Found(a, b) /= None) <=> (<< a, b >> \in inserted)

\* a directed graph holding an edge whose reverse was never inserted
C6_Witness ==
    /\ directed
    /\ \E p \in inserted : << p[2], p[1] >> \notin inserted /\ Found(p[2], p[1]) = None

\* C7: insertion is first-wins.  No step changes a payload that find_edge
\* already finds, and an add_edge that returns hands back the payload the
\* store holds for the pair: the one it held before, when it held one.
C7_FirstWins ==
    [][ /\ \A u, v \in Vertices :
             LET held == FindEdge(node_tables, directed, u, v)
             IN  held /= None => FindEdge(node_tables', directed', u, v) = held
        /\ (ret'.op = "add_edge" /\ ret'.outcome = "ok") =>
             /\ ret'.val = FindEdge(node_tables', directed', ret'.args[1], ret'.args[2])
             /\ FindEdge(node_tables, directed, ret'.args[1], ret'.args[2]) /= None =>
                  ret'.val = FindEdge(node_tables, directed, ret'.args[1], ret'.args[2])
      ]_vars

\* undirected: add_edge((1,0), B) has returned A, the payload stored for (0,1)
C7_Witness ==
    /\ ~directed
    /\ ret.op = "add_edge" /\ ret.outcome = "ok"
    /\ ret.args = << 1, 0, "B" >>
    /\ ret.val = Some("A")
    /\ Found(0, 1) = Some("A")

\* the step is an add_edge((x,x), _), called directly or for a list item
SelfLoopStep ==
    /\ ret'.op \in {"add_edge", "add_edge_list"}
    /\ Len(ret'.args) = 3
    /\ ret'.args[1] = ret'.args[2]

\* C8: add_edge((x,x), _) fails and leaves the store as it was.
C8_SelfLoopRejected ==
    [][ SelfLoopStep => (ret'.outcome = "panic" /\ node_tables' = node_tables) ]_vars

\* add_edge((x,x), _) has failed and x is not a registered vertex
C8_Witness ==
    /\ ret.op = "add_edge" /\ ret.outcome = "panic"
    /\ ret.args[1] = ret.args[2]
    /\ ~Registered(ret.args[1])

\* C9: after add_edge((u,v), _) has returned, u and v are both registered, so
\* that a traversal can be created from either.
C9_BothEndpointsRegistered ==
    \A p \in inserted :
        /\ Registered(p[1]) /\ Registered(p[2])
        /\ \A m \in Methods :
             /\ CreateTrav(node_tables, p[1], m).outcome = "ok"
             /\ CreateTrav(node_tables, p[2], m).outcome = "ok"

\* C10: bfs(v), dfs(v) and find_path(v, _) fail exactly when v is not
\* registered; otherwise the traversal they create has the frontier << v >>.
C10_CreateTrav ==
    /\ ret.op \in {"bfs", "dfs"} =>
         /\ (ret.outcome = "panic") <=> ~Registered(ret.args[1])
         /\ ret.outcome /= "panic" =>
              /\ ret.outcome = "ok"
              /\ trav.alive
              /\ trav.method = (IF ret.op = "bfs" THEN "BFS" ELSE "DFS")
              /\ trav.search_queue = << ret.args[1] >>
    /\ ret.op = "find_path" =>
         /\ (ret.outcome = "panic") <=> ~Registered(ret.args[1])
         /\ (pc = "find_path" /\ iter.yielded = << >>) =>
              (iter.alive /\ iter.method = "DFS" /\ iter.search_queue = << ret.args[1] >>)

\* a traversal was refused from the far endpoint of an inserted edge
C10_Witness ==
    /\ ret.op \in {"bfs", "dfs"} /\ ret.outcome = "panic"
    /\ \E p \in inserted : p[2] = ret.args[1]

\* C11: the first vertex a traversal yields is its start vertex; on the
\* undirected graph with the edges (0,1),(1,2),(2,3),(3,1), BFS from 0 yields
\* exactly the vertices 0, 1, 2, 3.
C11_StartFirst ==
    /\ trav.yielded /= << >> => trav.yielded[1] = trav.start
    /\ iter.yielded /= << >> => iter.yielded[1] = iter.start
    /\ ( /\ ~directed
         /\ inserted = {<< 0, 1 >>, << 1, 2 >>, << 2, 3 >>, << 3, 1 >>}
         /\ Exhausted /\ trav.method = "BFS" /\ trav.start = 0 )
       => Range(trav.yielded) = {0, 1, 2, 3}

\* C12: a traversal yields at most as many vertices as the graph has
\* registered vertices, and once next() has reported the end of the sequence
\* every later next() reports it again.
C12_FiniteNoRestart ==
    [][ /\ Len(trav'.yielded) <= Cardinality(DOMAIN node_tables')
        /\ Len(iter'.yielded) <= Cardinality(DOMAIN node_tables')
        /\ (Exhausted /\ ret'.op = "next") =>
             (ret'.outcome = "ok" /\ ret'.val = None /\ trav'.yielded = trav.yielded)
      ]_vars

\* a depth-first traversal from a vertex with neighbours has reported its end
C12_Witness ==
    /\ Exhausted /\ trav.method = "DFS"
    /\ trav.yielded /= << >>
    /\ DOMAIN node_tables[trav.start] /= {}

\* the step belongs to a traversal or to find_path
TraversalStep == ret'.op \in {"bfs", "dfs", "next", "drop", "find_path"}

\* C13: creating, stepping or abandoning a traversal, and running find_path,
\* never change the graph store.
C13_StoreUntouched ==
    [][ TraversalStep => (node_tables' = node_tables /\ directed' = directed) ]_vars

\* a traversal was abandoned, on a graph with an edge whose far endpoint has
\* no table
C13_Witness ==
    /\ ret.op = "drop"
    /\ \E p \in inserted : ~Registered(p[2])

\* the slot find_edge((u,v)) reads: (min,max) in an undirected graph, (u,v)
\* as given in a directed one
SlotRead(u, v) ==
    IF directed \/ u <= v THEN << u, v >> ELSE << v, u >>

\* C14: find_edge((u,v)) returns "not found" whenever either vertex is
\* absent from the store, the edge key is absent, or the slot it reads holds
\* no payload; and it leaves the store as it was.
C14_FindEdgeNotFound ==
    [][ ret'.op = "find_edge" =>
          LET u == ret'.args[1]
              v == ret'.args[2]
              a == SlotRead(u, v)[1]
              b == SlotRead(u, v)[2]
          IN  /\ node_tables' = node_tables
              /\ (~Registered(u) \/ ~Registered(v)) => ret'.val = None
              /\ (Registered(a) /\ b \notin DOMAIN node_tables[a]) => ret'.val = None
              /\ (Registered(a) /\ b \in DOMAIN node_tables[a] /\ node_tables[a][b] = None)
                    => ret'.val = None
      ]_vars

\* v is a key of u's adjacency table
HasKey(u, v) == Registered(u) /\ v \in DOMAIN node_tables[u]

\* C15: in an undirected graph each inserted edge {u,v}, u < v, has its
\* payload at u's table under v and an empty mirror entry at v's table under
\* u; adjacency is symmetric, no (min,max) slot is empty and no (max,min)
\* slot holds a payload.
C15_UndirectedLayout ==
    ~directed =>
        /\ \A p \in inserted :
              LET u == IF p[1] < p[2] THEN p[1] ELSE p[2]
                  v == IF p[1] < p[2] THEN p[2] ELSE p[1]
              IN  /\ HasKey(u, v) /\ node_tables[u][v] /= None
                  /\ HasKey(v, u) /\ node_tables[v][u] = None
        /\ \A u \in DOMAIN node_tables : \A v \in DOMAIN node_tables[u] :
              /\ HasKey(v, u)
              /\ u < v => node_tables[u][v] /= None
              /\ u > v => node_tables[u][v] = None

\* an undirected graph with two edges, one of them inserted larger endpoint
\* first
C15_Witness ==
    /\ ~directed
    /\ \E p, q \in inserted :
          /\ p[1] > p[2]
          /\ {p[1], p[2]} /= {q[1], q[2]}

\* C16: in a directed graph v is a key of u's adjacency table exactly when
\* add_edge((u,v), _) was called, and every slot holds a payload: there is
\* no mirror entry.
C16_DirectedLayout ==
    directed =>
        /\ \A u, v \in Vertices : HasKey(u, v) <=> (<< u, v >> \in inserted)
        /\ \A u \in DOMAIN node_tables : \A v \in DOMAIN node_tables[u] :
              node_tables[u][v] /= None

\* a directed graph with an edge whose far endpoint is registered and holds
\* no entry back
C16_Witness ==
    /\ directed
    /\ \E p \in inserted : Registered(p[2]) /\ ~HasKey(p[2], p[1])

\* C17: add_vertex(v) changes nothing when v is registered and otherwise adds
\* v with an empty adjacency table and changes nothing else; no add_vertex,
\* add_edge or add_edge_list step removes an adjacency entry or empties one
\* that holds a payload.
C17_AddVertexIdempotent ==
    [][ /\ ret'.op = "add_vertex" =>
             LET v == ret'.args[1]
             IN  IF Registered(v)
                 THEN node_tables' = node_tables
                 ELSE /\ DOMAIN node_tables' = (DOMAIN node_tables) \cup {v}
                      /\ DOMAIN node_tables'[v] = {}
                      /\ \A u \in DOMAIN node_tables : node_tables'[u] = node_tables[u]
        /\ ret'.op \in {"add_vertex", "add_edge", "add_edge_list"} =>
             \A u \in DOMAIN node_tables :
                 /\ u \in DOMAIN node_tables'
                 /\ \A k \in DOMAIN node_tables[u] :
                       /\ k \in DOMAIN node_tables'[u]
                       /\ node_tables[u][k] /= None => node_tables'[u][k] /= None
      ]_vars

\* add_vertex has returned for a vertex whose table holds entries
C17_Witness ==
    /\ ret.op = "add_vertex"
    /\ DOMAIN node_tables[ret.args[1]] /= {}

\* where the back pointers lead from node: Some(fixed point), or None when a
\* key is missing or no fixed point is met within fuel steps
RECURSIVE Root(_, _, _)
Root(back_ptr, node, fuel) ==
    IF node \notin DOMAIN back_ptr THEN None
    ELSE IF back_ptr[node] = node THEN Some(node)
    ELSE IF fuel = 0 THEN None
    ELSE Root(back_ptr, back_ptr[node], fuel - 1)

BackPtrOK(t) ==
    t.alive =>
        /\ t.start \in DOMAIN t.back_ptr /\ t.back_ptr[t.start] = t.start
        /\ \A v \in Range(t.search_queue) : v \in DOMAIN t.back_ptr
        /\ \A w \in (DOMAIN t.back_ptr) \ {t.start} : HasKey(t.back_ptr[w], w)
        /\ \A k \in DOMAIN t.back_ptr :
              Root(t.back_ptr, k, Cardinality(DOMAIN t.back_ptr)) = Some(t.start)

\* C18: in every state of a traversal back_ptr sends the start vertex to
\* itself, holds every vertex of the frontier, sends every other key w to a
\* vertex whose table contains w, and leads from every key to the start
\* vertex; the walk of find_path ends and meets no missing key.
C18_BackPointers ==
    /\ BackPtrOK(trav)
    /\ BackPtrOK(iter)
    /\ (PathReturned /\ Registered(PathS)) => ret.outcome = "ok"

\* find_path is inside its loop, past the first vertex, from a vertex that
\* has neighbours
C18_Witness ==
    /\ pc = "find_path"
    /\ iter.yielded /= << >>
    /\ DOMAIN node_tables[iter.start] /= {}

\* C19: next() never panics: every vertex on a frontier has an adjacency
\* table.
C19_NextNeverPanics ==
    /\ ret.op = "next" => ret.outcome = "ok"
    /\ ret.op = "find_path" => (ret.outcome = "panic" => ~Registered(ret.args[1]))
    /\ \A v \in Range(trav.search_queue) \cup Range(iter.search_queue) : Registered(v)

\* next() has yielded a vertex one of whose neighbours has no adjacency table
C19_Witness ==
    /\ trav.alive /\ ret.op = "next" /\ ret.val /= None
    /\ \E u \in DOMAIN node_tables[trav.start] : ~Registered(u)

\* C20: find_path(s, s) on a registered s returns the empty sequence.
C20_PathToSelfEmpty ==
    (PathReturned /\ PathS = PathT /\ Registered(PathS)) =>
        (ret.outcome = "ok" /\ ret.val = Some(<< >>))

\* find_path(s, s) has returned, in a directed graph where s has an edge to
\* and an edge from another vertex
C20_Witness ==
    /\ directed /\ PathReturned /\ PathS = PathT /\ ret.outcome = "ok"
    /\ \E p, q \in inserted : p[1] = PathS /\ q[2] = PathS

TypeOK ==
    /\ directed \in BOOLEAN
    /\ DOMAIN node_tables \subseteq Nat
    /\ pc \in {"idle", "find_path", "add_edge_list"}
    /\ list_len \in 0..MaxList
    /\ \A p \in inserted : p[1] \in Nat /\ p[2] \in Nat /\ p[1] /= p[2]
====
